---- MODULE Spec2Model ----
(***************************************************************************)
(* A model of moltbook_verify: the challenge solver (degarble,             *)
(* extract_numbers, solve_challenge) and the one-shot submission           *)
(* (verify_content).  Python strings are TLA+ strings; a character is a    *)
(* string of length one.  The regular expressions of the source are        *)
(* written out as the searches they perform.                               *)
(***************************************************************************)
EXTENDS Integers, Sequences, FiniteSets, TLC

VARIABLES challenge, code, pc, solved, requests, response, returned,
          once, twice, cleaned_in, found

vars == <<challenge, code, pc, solved, requests, response, returned,
          once, twice, cleaned_in, found>>

\* the largest digit literal among the operands of a challenge
MaxOperand == 2

\* the largest digit literal in a duration phrase
MaxDuration == 12

\* the largest digit literal where operands are selected
MaxLiteral == 11

\* the most words of a cleaned text given to extract_numbers
MaxTokens == 3

\* the most characters of a text given to the collapse step
MaxLen == 6

\* the requests one call could send before the model stops counting
MaxRequests == 3

(***************************************************************************)
(* Characters and character classes of the regular expressions.            *)
(***************************************************************************)
Char(s, i) == SubSeq(s, i, i)

IndexIn(c, str) == CHOOSE i \in 1..Len(str) : Char(str, i) = c

DigitChars == "0123456789"

LowerChars == "abcdefghijklmnopqrstuvwxyz"

UpperChars == "ABCDEFGHIJKLMNOPQRSTUVWXYZ"

DigitSet == {Char(DigitChars, i) : i \in 1..Len(DigitChars)}

LowerSet == {Char(LowerChars, i) : i \in 1..Len(LowerChars)}

UpperSet == {Char(UpperChars, i) : i \in 1..Len(UpperChars)}

SpaceSet == {" ", "\t", "\n", "\r", "\f"}

\* \d
IsDigit(c) == c \in DigitSet

\* \s
IsSpace(c) == c \in SpaceSet

\* [a-zA-Z0-9\s], the characters line 83 keeps
IsKept(c) == c \in LowerSet \cup UpperSet \cup DigitSet \cup SpaceSet

\* \w, as \b reads it
IsWordChar(c) == c \in LowerSet \cup UpperSet \cup DigitSet \cup {"_"}

ToLower == [c \in UpperSet |-> Char(LowerChars, IndexIn(c, UpperChars))]

\* str.lower() of one character
LowerChar(c) == IF c \in UpperSet THEN ToLower[c] ELSE c

AllDigits(s) == Len(s) > 0 /\ \A i \in 1..Len(s) : IsDigit(Char(s, i))

\* w in text
Contains(text, w) == \E i \in 1..(Len(text) - Len(w) + 1) : SubSeq(text, i, i + Len(w) - 1) = w

\* any(w in text for w in ws)
AnyIn(text, ws) == \E w \in ws : Contains(text, w)

RECURSIVE SkipSpaceLeft(_, _)
\* the index of the nearest character at or before i that is no whitespace, 0 when none
SkipSpaceLeft(s, i) == IF i >= 1 /\ IsSpace(Char(s, i)) THEN SkipSpaceLeft(s, i - 1) ELSE i

RECURSIVE SkipSpaceRight(_, _)
\* the index of the nearest character at or after i that is no whitespace, Len(s) + 1 when none
SkipSpaceRight(s, i) == IF i <= Len(s) /\ IsSpace(Char(s, i)) THEN SkipSpaceRight(s, i + 1) ELSE i

(***************************************************************************)
(* degarble: the explicit operator, read from the raw text.                *)
(***************************************************************************)
\* s[i] is a digit, s[k] is a digit, only whitespace lies between them and
\* the symbol at j; with padded, some whitespace on both sides
DigitsAround(s, i, j, k, padded) ==
    /\ i >= 1 /\ IsDigit(Char(s, i))
    /\ k <= Len(s) /\ IsDigit(Char(s, k))
    /\ (padded => (j > i + 1 /\ k > j + 1))

\* re.search(r'\d\s*SYM\s*\d', s) with SYM one of syms; with padded, \s+ for \s*
DigitSymDigit(s, syms, padded) ==
    \E j \in 2..(Len(s) - 1) :
        /\ Char(s, j) \in syms
        /\ DigitsAround(s, SkipSpaceLeft(s, j - 1), j, SkipSpaceRight(s, j + 1), padded)

\* re.search(r'[*×]', s)
HasStar(s) == \E i \in 1..Len(s) : Char(s, i) \in {"*", "×"}

\* lines 72-80
ExplicitOp(s) ==
    IF DigitSymDigit(s, {"+"}, FALSE) THEN "add"
    ELSE IF DigitSymDigit(s, {"*", "×"}, FALSE) \/ HasStar(s) THEN "multiply"
    ELSE IF DigitSymDigit(s, {"/"}, FALSE) THEN "divide"
    ELSE IF DigitSymDigit(s, {"-"}, TRUE) THEN "subtract"
    ELSE "None"

(***************************************************************************)
(* degarble: cleaning.                                                     *)
(***************************************************************************)
RECURSIVE StripLowerFrom(_, _)
StripLowerFrom(s, i) ==
    IF i > Len(s) THEN ""
    ELSE (IF IsKept(Char(s, i)) THEN LowerChar(Char(s, i)) ELSE "") \o StripLowerFrom(s, i + 1)

\* re.sub(r"[^a-zA-Z0-9\s]", "", challenge).lower()
StripLower(s) == StripLowerFrom(s, 1)

RECURSIVE RunEnd(_, _)
\* the last index of the run of Char(s, i) that starts at i
RunEnd(s, i) == IF i < Len(s) /\ Char(s, i + 1) = Char(s, i) THEN RunEnd(s, i + 1) ELSE i

RECURSIVE CollapseRunsFrom(_, _, _)
\* at i with the run of s[i] ending at e: a run of min or more (of a
\* character '.' matches, so no newline) leaves one character
CollapseRunAt(s, i, e, min) ==
    IF Char(s, i) # "\n" /\ e - i + 1 >= min
    THEN Char(s, i) \o CollapseRunsFrom(s, e + 1, min)
    ELSE Char(s, i) \o CollapseRunsFrom(s, i + 1, min)

CollapseRunsFrom(s, i, min) == IF i > Len(s) THEN "" ELSE CollapseRunAt(s, i, RunEnd(s, i), min)

\* re.sub(r'(.)\1{min-1,}', r'\1', s)
CollapseRuns(s, min) == CollapseRunsFrom(s, 1, min)

RECURSIVE CollapsePairsFrom(_, _)
CollapsePairsFrom(s, i) ==
    IF i > Len(s) THEN ""
    ELSE IF i < Len(s) /\ Char(s, i) # "\n" /\ Char(s, i + 1) = Char(s, i)
         THEN Char(s, i) \o CollapsePairsFrom(s, i + 2)
         ELSE Char(s, i) \o CollapsePairsFrom(s, i + 1)

\* one pass of re.sub(r'(.)\1', r'\1', s) in place of the two of lines 84-85
CollapsePairsOnly(s) == CollapsePairsFrom(s, 1)

\* lines 84-85: runs of 3 or more, then runs of 2 or more
Collapse(s) == CollapseRuns(CollapseRuns(s, 3), 2)

RECURSIVE SplitFrom(_, _, _)
SplitFrom(s, i, cur) ==
    IF i > Len(s) THEN (IF cur = "" THEN <<>> ELSE <<cur>>)
    ELSE IF IsSpace(Char(s, i))
         THEN (IF cur = "" THEN <<>> ELSE <<cur>>) \o SplitFrom(s, i + 1, "")
         ELSE SplitFrom(s, i + 1, cur \o Char(s, i))

\* str.split()
Split(s) == SplitFrom(s, 1, "")

RECURSIVE Join(_, _)
\* sep.join(ws)
Join(ws, sep) ==
    IF Len(ws) = 0 THEN ""
    ELSE IF Len(ws) = 1 THEN ws[1]
    ELSE ws[1] \o sep \o Join(Tail(ws), sep)

(***************************************************************************)
(* The lookup tables, each written as its (key, value) items.              *)
(***************************************************************************)
WORD_CORRECTIONS_items ==
    {<<"thre", "three">>, <<"fourten", "fourteen">>, <<"fiften", "fifteen">>,
     <<"sixten", "sixteen">>, <<"seventen", "seventeen">>, <<"eighten", "eighteen">>,
     <<"nineten", "nineteen">>, <<"twety", "twenty">>, <<"thrty", "thirty">>,
     <<"fty", "fifty">>, <<"sxty", "sixty">>, <<"sevnty", "seventy">>,
     <<"eghty", "eighty">>, <<"nnety", "ninety">>,
     <<"hundrd", "hundred">>, <<"thousnd", "thousand">>,
     <<"lobstr", "lobster">>, <<"twnty", "twenty">>, <<"thrte", "thirty">>,
     <<"fife", "five">>, <<"fve", "five">>, <<"hre", "three">>,
     <<"hirty", "thirty">>, <<"irty", "thirty">>, <<"hirteen", "thirteen">>,
     <<"ourteen", "fourteen">>, <<"ifteen", "fifteen">>, <<"ixteen", "sixteen">>,
     <<"ighteen", "eighteen">>, <<"ineteen", "nineteen">>,
     <<"wenty", "twenty">>, <<"enty", "twenty">>,
     <<"orty", "forty">>, <<"ighty", "eighty">>, <<"inety", "ninety">>,
     <<"sped", "speed">>, <<"gans", "gains">>, <<"gan", "gain">>}

NUMBER_WORDS_items ==
    {<<"zero", 0>>, <<"one", 1>>, <<"two", 2>>, <<"three", 3>>, <<"four", 4>>, <<"five", 5>>,
     <<"six", 6>>, <<"seven", 7>>, <<"eight", 8>>, <<"nine", 9>>, <<"ten", 10>>,
     <<"eleven", 11>>, <<"twelve", 12>>, <<"thirteen", 13>>, <<"fourteen", 14>>, <<"fifteen", 15>>,
     <<"sixteen", 16>>, <<"seventeen", 17>>, <<"eighteen", 18>>, <<"nineteen", 19>>, <<"twenty", 20>>,
     <<"thirty", 30>>, <<"forty", 40>>, <<"fifty", 50>>, <<"sixty", 60>>, <<"seventy", 70>>,
     <<"eighty", 80>>, <<"ninety", 90>>, <<"hundred", 100>>, <<"thousand", 1000>>}

\* the dict of the items
DictOf(items) == [k \in {it[1] : it \in items} |-> (CHOOSE it \in items : it[1] = k)[2]]

WORD_CORRECTIONS == DictOf(WORD_CORRECTIONS_items)

NUMBER_WORDS == DictOf(NUMBER_WORDS_items)

NUMBER_TARGETS ==
    DOMAIN NUMBER_WORDS \cup
    {"total", "force", "distance", "lobster", "newtons", "meters", "seconds",
     "minutes", "centimeters", "kilometers", "increases", "decreases",
     "accelerates", "decelerates", "molting", "antenna", "exerts"}

\* d.get(w, default)
Get(d, w, default) == IF w \in DOMAIN d THEN d[w] ELSE default

\* WORD_CORRECTIONS.get(w, w)
Correct(w) == Get(WORD_CORRECTIONS, w, w)

\* w in NUMBER_WORDS
IsNumberWord(w) == w \in DOMAIN NUMBER_WORDS

\* [WORD_CORRECTIONS.get(w, w) for w in words]
FixWords(words) == [i \in 1..Len(words) |-> Correct(words[i])]

(***************************************************************************)
(* degarble: rejoining the fragments, lines 92-112.                        *)
(***************************************************************************)
\* lines 99-109: the word the concatenation is replaced by, "" when by none
TargetOf(combined, corrected) ==
    IF combined \in NUMBER_TARGETS THEN combined
    ELSE IF corrected \in NUMBER_TARGETS THEN corrected
    ELSE ""

\* lines 97-98 for one span
Combined(fw, i, span) == Join(SubSeq(fw, i, i + span - 1), "")

\* lines 97-109 for one span: the word the span is replaced by, "" when by none
SpanMatch(fw, i, span) ==
    IF i + span <= Len(fw) + 1
    THEN TargetOf(Combined(fw, i, span), Correct(Combined(fw, i, span)))
    ELSE ""

\* the largest of the numbers
Largest(ns) == CHOOSE n \in ns : \A m \in ns : m <= n

\* for span in [5, 4, 3, 2]: the first span that matches, 0 when none
FirstSpan(fw, i) == Largest({0} \cup {span \in {5, 4, 3, 2} : SpanMatch(fw, i, span) # ""})

RECURSIVE RejoinFrom(_, _)
\* lines 100-102, 106-108 and 110-112: one round of the while loop
RejoinStep(fw, i, span) ==
    IF span > 0
    THEN <<SpanMatch(fw, i, span)>> \o RejoinFrom(fw, i + span)
    ELSE <<fw[i]>> \o RejoinFrom(fw, i + 1)

RejoinFrom(fw, i) == IF i > Len(fw) THEN <<>> ELSE RejoinStep(fw, i, FirstSpan(fw, i))

\* lines 92-112
Rejoin(fw) == RejoinFrom(fw, 1)

\* degarble(challenge): (cleaned_text, explicit_op)
degarble(s) ==
    [cleaned |-> Join(Rejoin(FixWords(Split(Collapse(StripLower(s))))), " "),
     explicit_op |-> ExplicitOp(s)]

(***************************************************************************)
(* Numbers.  A float read from a literal or from the number-word table is  *)
(* the decimal m / 10^e with no trailing zero in its fraction, so that     *)
(* equal floats are equal records; a computed result is the fraction n/d.  *)
(***************************************************************************)
RECURSIVE Pow10(_)
Pow10(e) == IF e = 0 THEN 1 ELSE 10 * Pow10(e - 1)

DigitVal(c) == IndexIn(c, DigitChars) - 1

RECURSIVE ParseNat(_)
\* the value of a string of digits ("" reads as 0)
ParseNat(s) == IF Len(s) = 0 THEN 0 ELSE 10 * ParseNat(SubSeq(s, 1, Len(s) - 1)) + DigitVal(Char(s, Len(s)))

RECURSIVE Normal(_, _)
Normal(m, e) == IF e > 0 /\ m % 10 = 0 THEN Normal(m \div 10, e - 1) ELSE [m |-> m, e |-> e]

\* float(val) of an int
FloatOfInt(v) == [m |-> v, e |-> 0]

\* float of the literal whose '.' is at index dot
FloatOfDecimal(lit, dot) ==
    Normal(ParseNat(SubSeq(lit, 1, dot - 1)) * Pow10(Len(lit) - dot)
             + ParseNat(SubSeq(lit, dot + 1, Len(lit))),
           Len(lit) - dot)

\* float(n) of a literal \d+(\.\d+)?
FloatOfLiteral(lit) ==
    IF \E i \in 1..Len(lit) : Char(lit, i) = "."
    THEN FloatOfDecimal(lit, IndexIn(".", lit))
    ELSE FloatOfInt(ParseNat(lit))

Rat(x) == [n |-> x.m, d |-> Pow10(x.e)]

RatAdd(x, y) == [n |-> x.n * y.d + y.n * x.d, d |-> x.d * y.d]

RatSub(x, y) == [n |-> x.n * y.d - y.n * x.d, d |-> x.d * y.d]

RatMul(x, y) == [n |-> x.n * y.n, d |-> x.d * y.d]

\* a float division raises ZeroDivisionError on a zero divisor
ZeroDivisionError == [n |-> 0, d |-> 0]

\* a name read before any branch assigned it
UnboundLocalError == [n |-> 1, d |-> 0]

\* a / b
TrueDiv(x, y) == IF y.n = 0 THEN ZeroDivisionError ELSE [n |-> x.n * y.d, d |-> x.d * y.n]

\* a / b with the guard dropped
UnguardedDiv(x, y) == TrueDiv(x, y)

\* a / b if b != 0 else 0
GuardedDiv(x, y) == IF y.n # 0 THEN TrueDiv(x, y) ELSE [n |-> 0, d |-> 1]

RECURSIVE RatSum(_)
\* sum(unique_nums)
RatSum(xs) == IF Len(xs) = 0 THEN [n |-> 0, d |-> 1] ELSE RatAdd(Rat(xs[1]), RatSum(Tail(xs)))

RECURSIVE NatToStr(_)
NatToStr(k) == IF k < 10 THEN Char(DigitChars, k + 1) ELSE NatToStr(k \div 10) \o Char(DigitChars, (k % 10) + 1)

Abs(k) == IF k < 0 THEN -k ELSE k

\* q hundredths and a remainder rem of d: up when past the half, to the even
\* hundredth on the half
RoundHalfEven(q, rem, d) ==
    IF 2 * rem > d THEN q + 1
    ELSE IF 2 * rem < d THEN q
    ELSE IF q % 2 = 0 THEN q ELSE q + 1

\* h hundredths written with two decimals
Hundredths(neg, h) ==
    (IF neg THEN "-" ELSE "") \o NatToStr(h \div 100) \o "."
      \o Char(DigitChars, ((h \div 10) % 10) + 1) \o Char(DigitChars, (h % 10) + 1)

\* f"{result:.2f}": the nearest hundredth, an exact tie going to the even one.
\* This is the float's formatting for every result that is a multiple of
\* 1/100, and for every quotient that is not a tie with a factor 5 left in
\* its denominator (3/40 is one: there the float lies off the tie).
Format2(r) ==
    Hundredths(r.n < 0, RoundHalfEven((Abs(r.n) * 100) \div r.d, (Abs(r.n) * 100) % r.d, r.d))

(***************************************************************************)
(* extract_numbers                                                         *)
(***************************************************************************)
RECURSIVE DigitsEnd(_, _)
\* the last index of the run of digits that starts at i
DigitsEnd(s, i) == IF i < Len(s) /\ IsDigit(Char(s, i + 1)) THEN DigitsEnd(s, i + 1) ELSE i

\* \b after index x, which holds a digit
EndsWord(s, x) == x = Len(s) \/ ~IsWordChar(Char(s, x + 1))

\* \b before index p, which holds a digit
StartsWord(s, p) == p = 1 \/ ~IsWordChar(Char(s, p - 1))

\* the last index of the fraction \.\d+ that follows index q, q when none follows
FractionEnd(s, q) ==
    IF q + 2 <= Len(s) /\ Char(s, q + 1) = "." /\ IsDigit(Char(s, q + 2))
    THEN DigitsEnd(s, q + 2)
    ELSE q

RECURSIVE DigitLiteralsFrom(_, _)
\* a match tried at p, where \d+ ends at q and with its fraction at r: the
\* longer one if a \b follows it, else the shorter one if a \b follows that
LiteralAt(s, p, q, r) ==
    IF EndsWord(s, r) THEN <<SubSeq(s, p, r)>> \o DigitLiteralsFrom(s, r + 1)
    ELSE IF EndsWord(s, q) THEN <<SubSeq(s, p, q)>> \o DigitLiteralsFrom(s, q + 1)
    ELSE DigitLiteralsFrom(s, p + 1)

DigitLiteralsFrom(s, p) ==
    IF p > Len(s) THEN <<>>
    ELSE IF IsDigit(Char(s, p)) /\ StartsWord(s, p)
    THEN LiteralAt(s, p, DigitsEnd(s, p), FractionEnd(s, DigitsEnd(s, p)))
    ELSE DigitLiteralsFrom(s, p + 1)

\* re.findall(r'\b(\d+(?:\.\d+)?)\b', challenge)
DigitLiterals(s) == DigitLiteralsFrom(s, 1)

\* lines 139-144 with the tens test written val > 20
MergeAboveTwenty(val, next_val) ==
    IF val > 20 /\ next_val < 10 THEN [val |-> val + next_val, step |-> 2]
    ELSE IF val >= 100 /\ next_val < 100 THEN [val |-> val + next_val, step |-> 2]
    ELSE [val |-> val, step |-> 1]

\* lines 139-144: the value after the one lookahead, and how far the cursor moves
Merge(val, next_val) ==
    IF val >= 20 /\ next_val < 10 THEN [val |-> val + next_val, step |-> 2]
    ELSE IF val >= 100 /\ next_val < 100 THEN [val |-> val + next_val, step |-> 2]
    ELSE [val |-> val, step |-> 1]

\* lines 135-144: words[i] is a number word
NumberAt(words, i) ==
    IF i + 1 <= Len(words) /\ IsNumberWord(words[i + 1])
    THEN Merge(NUMBER_WORDS[words[i]], NUMBER_WORDS[words[i + 1]])
    ELSE [val |-> NUMBER_WORDS[words[i]], step |-> 1]

RECURSIVE WordNumbersFrom(_, _)
\* lines 145-146
Emit(words, i, mg) == <<FloatOfInt(mg.val)>> \o WordNumbersFrom(words, i + mg.step)

WordNumbersFrom(words, i) ==
    IF i > Len(words) THEN <<>>
    ELSE IF IsNumberWord(words[i]) THEN Emit(words, i, NumberAt(words, i))
    ELSE WordNumbersFrom(words, i + 1)

\* lines 128-146
WordNumbers(cleaned) == WordNumbersFrom(Split(cleaned), 1)

\* lines 149-153
FloatsOf(lits) == [i \in 1..Len(lits) |-> FloatOfLiteral(lits[i])]

extract_numbers(raw, cleaned) == WordNumbers(cleaned) \o FloatsOf(DigitLiterals(raw))

(***************************************************************************)
(* solve_challenge: operand selection, lines 178-196.                      *)
(***************************************************************************)
OpSymbols == {"+", "-", "*", "/", "×"}

\* a run of digits that ends at j is repeated from k on
RepeatedDigits(s, j, k) ==
    \E len \in 1..j :
        /\ k + len - 1 <= Len(s)
        /\ AllDigits(SubSeq(s, j - len + 1, j))
        /\ SubSeq(s, k, k + len - 1) = SubSeq(s, j - len + 1, j)

\* re.search(r'(\d+)\s*[+\-*/×]\s*\1', challenge)
SameNumPattern(s) ==
    \E o \in 2..(Len(s) - 1) :
        /\ Char(s, o) \in OpSymbols
        /\ RepeatedDigits(s, SkipSpaceLeft(s, o - 1), SkipSpaceRight(s, o + 1))

\* any(c >= 2 for c in Counter(found_nums).values())
HasDuplicate(nums) == \E i \in 1..Len(nums) : \E j \in (i + 1)..Len(nums) : nums[i] = nums[j]

RECURSIVE DedupFrom(_, _, _)
DedupFrom(nums, i, seen) ==
    IF i > Len(nums) THEN <<>>
    ELSE IF nums[i] \in seen THEN DedupFrom(nums, i + 1, seen)
    ELSE <<nums[i]>> \o DedupFrom(nums, i + 1, seen \cup {nums[i]})

\* lines 188-193
Dedup(nums) == DedupFrom(nums, 1, {})

\* lines 179-183
IsSameNum(s, found_nums, explicit_op) ==
    \/ SameNumPattern(s)
    \/ (Len(found_nums) >= 2 /\ HasDuplicate(found_nums) /\ explicit_op # "None")

\* found_nums[:2]
FirstTwo(nums) == IF Len(nums) >= 2 THEN SubSeq(nums, 1, 2) ELSE nums

\* lines 178-193: unique_nums
SelectOperands(s, found_nums, explicit_op) ==
    IF IsSameNum(s, found_nums, explicit_op) THEN FirstTwo(found_nums) ELSE Dedup(found_nums)

(***************************************************************************)
(* solve_challenge: the operation, lines 198-258.                          *)
(***************************************************************************)
rate_words == {"per second", "per sec", "per minute", "per min", "per hour", "cm per", "meters per"}

subtract_words == {"slow", "slows", "reduce", "reduces", "resistance", "decelerate", "loses",
                   "drops", "decreases", "minus", "subtract", "less", "gave away", "spent",
                   "remaining", "left over"}

add_words == {"plus", "added", "adds", "more than", "additional", "gained", "gains", "gain",
              "accelerates", "faster", "increases", "speeds", "more", "earns", "collects",
              "gathers", "receives", "gets"}

multiply_words == {"times", "multiply", "multiplied", "multiplies", "multi"}

divide_words == {"divided", "divide", "split", "shared equally"}

aggregate_words == {"total", "combined", "altogether", "sum", "how many"}

duration_units == {"second", "seconds", "minute", "minutes", "hour", "hours", "sec", "secs", "min", "mins"}

\* the first group of the duration pattern: \d+ or a number word of value <= 100
IsDurationNumber(tok) == AllDigits(tok) \/ (IsNumberWord(tok) /\ NUMBER_WORDS[tok] <= 100)

\* the indexes at which \bfor\s+(N)\s+(unit)\b matches in the tokens
DurationHits(toks) ==
    {i \in 1..(Len(toks) - 2) :
        /\ toks[i] = "for"
        /\ IsDurationNumber(toks[i + 1])
        /\ toks[i + 2] \in duration_units}

\* group 1 of the leftmost match
FirstDuration(toks, hits) ==
    IF hits = {} THEN "" ELSE toks[(CHOOSE i \in hits : \A j \in hits : i <= j) + 1]

\* lines 222-225: duration_match.group(1), "" when there is no match.  The
\* pattern is searched in text whose tokens are letters and digits only, so
\* it matches three whole tokens that follow each other.
DurationMatch(text) == FirstDuration(Split(text), DurationHits(Split(text)))

\* lines 230-231: time_val
TimeVal(dur_str) ==
    IF AllDigits(dur_str) THEN FloatOfLiteral(dur_str)
    ELSE FloatOfInt(Get(NUMBER_WORDS, dur_str, 0))

\* line 227 and line 232: the rate tier returns
RateApplies(text, dur_str) ==
    /\ AnyIn(text, rate_words)
    /\ dur_str # ""
    /\ ~AnyIn(text, subtract_words)
    /\ TimeVal(dur_str).m # 0

\* lines 238-256: the operation the keyword tier applies
KeywordOp(text) ==
    IF Contains(text, "each") THEN "multiply"
    ELSE IF AnyIn(text, add_words) THEN "add"
    ELSE IF AnyIn(text, subtract_words) THEN "subtract"
    ELSE IF AnyIn(text, multiply_words) THEN "multiply"
    ELSE IF AnyIn(text, divide_words) THEN "divide"
    ELSE IF AnyIn(text, aggregate_words) THEN "sum"
    ELSE "sum"

\* lines 200-208 with the divide branch missing
ComputeWithoutDivide(op, a, b, nums) ==
    CASE op = "add" -> RatAdd(a, b)
      [] op = "subtract" -> RatSub(a, b)
      [] op = "multiply" -> RatMul(a, b)
      [] op = "sum" -> RatSum(nums)
      [] OTHER -> UnboundLocalError

\* lines 200-208 and 236-256: result, for a, b = unique_nums[0], unique_nums[1]
Compute(op, a, b, nums) ==
    CASE op = "add" -> RatAdd(a, b)
      [] op = "subtract" -> RatSub(a, b)
      [] op = "multiply" -> RatMul(a, b)
      [] op = "divide" -> GuardedDiv(a, b)
      [] op = "sum" -> RatSum(nums)
      [] OTHER -> UnboundLocalError

\* the name of the exception
ErrorName(result) == IF result = ZeroDivisionError THEN "ZeroDivisionError" ELSE "UnboundLocalError"

\* return f"{result:.2f}", or the exception the statement raised
Answer(result) ==
    IF result.d = 0 THEN [tag |-> "raise", val |-> ErrorName(result)]
    ELSE [tag |-> "str", val |-> Format2(result)]

None == [tag |-> "None", val |-> ""]

\* the tiers with the keyword tier tried before the explicit operator
TierKeywordFirst(text, explicit_op, dur_str) ==
    IF explicit_op # "None" /\ KeywordOp(text) = "sum" THEN "explicit"
    ELSE IF RateApplies(text, dur_str) THEN "rate"
    ELSE "keyword"

\* the tier that decides: line 199, line 227 with 232, else line 236
Tier(text, explicit_op, dur_str) ==
    IF explicit_op # "None" THEN "explicit"
    ELSE IF RateApplies(text, dur_str) THEN "rate"
    ELSE "keyword"

\* the operation of the tier
OpOf(tier, text, explicit_op) ==
    IF tier = "explicit" THEN explicit_op
    ELSE IF tier = "rate" THEN "multiply"
    ELSE KeywordOp(text)

\* line 233, or lines 209 and 258
AnswerOf(tier, op, nums, dur_str) ==
    IF tier = "rate" THEN Answer(RatMul(Rat(nums[1]), Rat(TimeVal(dur_str))))
    ELSE Answer(Compute(op, Rat(nums[1]), Rat(nums[2]), nums))

\* what a call of solve_challenge leaves: its locals and its return value
Solved(dg, found_nums, unique_nums, tier, op, answer) ==
    [cleaned |-> dg.cleaned, explicit_op |-> dg.explicit_op, found_nums |-> found_nums,
     unique_nums |-> unique_nums, tier |-> tier, op |-> op, answer |-> answer]

\* lines 198-258
Decide(dg, found_nums, unique_nums, dur_str, tier, op) ==
    Solved(dg, found_nums, unique_nums, tier, op, AnswerOf(tier, op, unique_nums, dur_str))

Resolve(dg, found_nums, unique_nums, dur_str, tier) ==
    Decide(dg, found_nums, unique_nums, dur_str, tier, OpOf(tier, dg.cleaned, dg.explicit_op))

\* lines 195-196, then the tiers
SolveSelected(dg, found_nums, unique_nums, dur_str) ==
    IF Len(unique_nums) < 2
    THEN Solved(dg, found_nums, unique_nums, "none", "none", None)
    ELSE Resolve(dg, found_nums, unique_nums, dur_str, Tier(dg.cleaned, dg.explicit_op, dur_str))

\* lines 178-193
SolveExtracted(s, dg, found_nums) ==
    SolveSelected(dg, found_nums, SelectOperands(s, found_nums, dg.explicit_op), DurationMatch(dg.cleaned))

\* line 176
SolveDegarbled(s, dg) == SolveExtracted(s, dg, extract_numbers(s, dg.cleaned))

\* solve_challenge(challenge), line 174 on
solve_challenge(s) == SolveDegarbled(s, degarble(s))

(***************************************************************************)
(* The state machine.  solve_challenge and verify_content are the two      *)
(* entry points; verify_content is split where it waits for the endpoint.  *)
(***************************************************************************)
NotSolved ==
    [cleaned |-> "", explicit_op |-> "None", found_nums |-> <<>>, unique_nums |-> <<>>,
     tier |-> "none", op |-> "none", answer |-> [tag |-> "unset", val |-> ""]]

\* what the endpoint can answer: a JSON object with success true, false or
\* absent, a body that is no JSON (resp.json() raises), or no response at
\* all (requests.post raises, on the timeout of line 296 for one)
Outcomes == {"success_true", "success_false", "success_missing", "not_json", "transport_error"}

\* lines 299-300 with the submission sent again after a response without success
RetryOnFailure(outcome) ==
    IF outcome \in {"success_false", "success_missing"} THEN "posting"
    ELSE IF outcome = "not_json" THEN "raised" ELSE "returned"

\* lines 299-300: where verify_content goes once the response is there
AfterResponse(outcome) == IF outcome = "not_json" THEN "raised" ELSE "returned"

\* bool(data.get("success"))
Success(outcome) == IF outcome = "success_true" THEN "True" ELSE "False"

\* a direct call of solve_challenge(challenge)
SolveChallenge ==
    /\ pc = "start"
    /\ solved' = solve_challenge(challenge)
    /\ pc' = "solved"
    /\ UNCHANGED <<challenge, code, requests, response, returned, once, twice, cleaned_in, found>>

\* lines 285-287, with r what solve_challenge(challenge) left
VerifySolved(r) ==
    /\ solved' = r
    /\ returned' = IF r.answer.tag = "None" THEN "False" ELSE returned
    /\ pc' = CASE r.answer.tag = "None" -> "returned"
               [] r.answer.tag = "raise" -> "raised"
               [] OTHER -> "posting"

\* verify_content, lines 279-287
VerifyContent ==
    /\ pc = "start"
    /\ IF challenge = "" \/ code = ""
       THEN returned' = "False" /\ pc' = "returned" /\ UNCHANGED solved
       ELSE VerifySolved(solve_challenge(challenge))
    /\ UNCHANGED <<challenge, code, requests, response, once, twice, cleaned_in, found>>

\* verify_content, lines 289-297: the one requests.post
Post ==
    /\ pc = "posting"
    /\ requests < MaxRequests
    /\ requests' = requests + 1
    /\ \E outcome \in Outcomes :
          /\ response' = outcome
          /\ pc' = IF outcome = "transport_error" THEN "raised" ELSE "responded"
    /\ UNCHANGED <<challenge, code, solved, returned, once, twice, cleaned_in, found>>

\* verify_content, lines 299-300
Return ==
    /\ pc = "responded"
    /\ pc' = AfterResponse(response)
    /\ returned' = IF pc' = "returned" THEN Success(response) ELSE returned
    /\ UNCHANGED <<challenge, code, solved, requests, response, once, twice, cleaned_in, found>>

\* extract_numbers(challenge, cleaned_in) called on its own
ExtractNumbers ==
    /\ pc = "start"
    /\ found' = extract_numbers(challenge, cleaned_in)
    /\ pc' = "extracted"
    /\ UNCHANGED <<challenge, code, solved, requests, response, returned, once, twice, cleaned_in>>

\* lines 84-85 applied to a text, and applied again to what they left
CollapseStep ==
    /\ pc = "start"
    /\ once' = Collapse(challenge)
    /\ twice' = Collapse(Collapse(challenge))
    /\ pc' = "collapsed"
    /\ UNCHANGED <<challenge, code, solved, requests, response, returned, cleaned_in, found>>

(***************************************************************************)
(* Inputs.                                                                 *)
(***************************************************************************)
Rest ==
    /\ pc = "start"
    /\ solved = NotSolved
    /\ requests = 0
    /\ response = "none"
    /\ returned = "none"
    /\ once = ""
    /\ twice = ""
    /\ found = <<>>

\* the digit literals "0" .. "n"
Literals(n) == {NatToStr(k) : k \in 0..n}

\* pre lhs mid rhs post
Texts(pres, lhss, mids, rhss, posts) ==
    {pre \o lhs \o mid \o rhs \o post :
        pre \in pres, lhs \in lhss, mid \in mids, rhs \in rhss, post \in posts}

RECURSIVE Strings(_, _, _)
\* the strings of at most n of the pieces, each but the first after sep
Strings(pieces, sep, n) ==
    IF n = 0 THEN {""}
    ELSE {""} \cup pieces \cup {s \o sep \o p : s \in Strings(pieces, sep, n - 1) \ {""}, p \in pieces}

\* challenges of every kind, for both entry points
MainOperands == Literals(MaxOperand) \cup {"", "2.5", "zero", "eight", "Thirteen"}

MainMids == {" ", ", ", " + ", "/", " / ", " - ", "-", "*", " divided by ", " split ",
             " plus ", " minus ", " each "}

Init ==
    /\ challenge \in {""} \cup Texts({"", "A crab: "}, MainOperands, MainMids, MainOperands,
                                    {"", " newtons!", " for 2 hours per hour"})
    /\ code \in {"", "c0de"}
    /\ cleaned_in = ""
    /\ Rest

Next == SolveChallenge \/ VerifyContent \/ Post \/ Return

Spec == Init /\ [][Next]_vars

\* two digit literals around every operator symbol, with and without
\* whitespace, among keywords and a second operator
OpMids == {l \o sym \o r : l \in {"", " "}, sym \in OpSymbols, r \in {"", " "}}

InitOp ==
    /\ challenge \in Texts({"", "each ", "minus "}, Literals(MaxOperand), OpMids, Literals(MaxOperand),
                           {"", " plus", " divided", " 7 / 1", " lob*ster"})
    /\ code = ""
    /\ cleaned_in = ""
    /\ Rest

SpecOp == InitOp /\ [][SolveChallenge]_vars

\* two operands around a keyword of every category, and a second keyword
KwMids == {" each ", " plus ", " gains ", " added ", " adds ", " additional ", " more than ",
           " minus ", " less ", " slows ", " times ", " divided by ", " split ", " total ", " and "}

InitKw ==
    /\ challenge \in Texts({""}, Literals(MaxOperand) \cup {"ten", "three"}, KwMids,
                           Literals(MaxOperand) \cup {"ten", "three"},
                           {"", " each", " minus one", " times", " in total", " gains"})
    /\ code = ""
    /\ cleaned_in = ""
    /\ Rest

SpecKw == InitKw /\ [][SolveChallenge]_vars

\* a rate, a rate phrase or none, a duration of digits or of a word, a unit
\* or none, and a keyword
InitRate ==
    /\ challenge \in Texts({"", "A crab moves "}, {"4", "four", "2.5"},
                           {" meters per second for ", " cm per hour for ", " meters for ", " per sec "},
                           Literals(MaxDuration) \cup {"five", "zero", "twenty"},
                           {" seconds", " mins", " days", " seconds each", " seconds minus 1",
                            " seconds plus 2", " hours in total"})
    /\ code = ""
    /\ cleaned_in = ""
    /\ Rest

SpecRate == InitRate /\ [][SolveChallenge]_vars

\* two digit literals around a symbol or a word, a number word before and a
\* third literal after
InitSel ==
    /\ challenge \in Texts({"", "five "}, Literals(MaxLiteral), {"-", " - ", "+", " + ", " ", " and ", "/"},
                           Literals(MaxLiteral), {"", " 7", " and 1"})
    /\ code = ""
    /\ cleaned_in = ""
    /\ Rest

SpecSel == InitSel /\ [][SolveChallenge]_vars

\* every number word on its own between words that are no number
InitWords ==
    /\ challenge \in Texts({"", "A crab has "}, DOMAIN NUMBER_WORDS, {""}, {""},
                           {"", " newtons", " newtons and 2 meters"})
    /\ code = ""
    /\ cleaned_in = ""
    /\ Rest

SpecWords == InitWords /\ [][SolveChallenge]_vars

\* cleaned text of at most MaxTokens words, beside raw text with or without a literal
ExtractWords == {"zero", "three", "nine", "ten", "twenty", "ninety", "hundred", "thousand", "crab"}

InitExtract ==
    /\ challenge \in {"", "7"}
    /\ code = ""
    /\ cleaned_in \in Strings(ExtractWords, " ", MaxTokens)
    /\ Rest

SpecExtract == InitExtract /\ [][ExtractNumbers]_vars

\* every text of at most MaxLen characters, of two letters and the newline
InitCollapse ==
    /\ challenge \in Strings({"a", "b", "\n"}, "", MaxLen)
    /\ code = ""
    /\ cleaned_in = ""
    /\ Rest

SpecCollapse == InitCollapse /\ [][CollapseStep]_vars

(***************************************************************************)
(* The claims.                                                             *)
(***************************************************************************)
\* every operator symbol of the text is one of syms
OnlySymbols(s, syms) == \A i \in 1..Len(s) : Char(s, i) \in OpSymbols => Char(s, i) \in syms

\* the answer string of a result
Str(result) == [tag |-> "str", val |-> Format2(result)]

\* the first and the second operand
OperandA == Rat(solved.unique_nums[1])

OperandB == Rat(solved.unique_nums[2])

\* C1, as the claim states it, on the texts with one kind of operator symbol
\* only: a +, -, * (or ×) or / between two digits, with or without
\* whitespace around it, makes the answer that operation applied to the
\* first two operands.
C1_AnySymbolBetweenDigits ==
    (pc = "solved" /\ Len(solved.unique_nums) >= 2) =>
        /\ (DigitSymDigit(challenge, {"+"}, FALSE) /\ OnlySymbols(challenge, {"+"}))
              => solved.answer = Str(RatAdd(OperandA, OperandB))
        /\ (DigitSymDigit(challenge, {"-"}, FALSE) /\ OnlySymbols(challenge, {"-"}))
              => solved.answer = Str(RatSub(OperandA, OperandB))
        /\ (DigitSymDigit(challenge, {"*", "×"}, FALSE) /\ OnlySymbols(challenge, {"*", "×"}))
              => solved.answer = Str(RatMul(OperandA, OperandB))
        /\ (DigitSymDigit(challenge, {"/"}, FALSE) /\ OnlySymbols(challenge, {"/"}) /\ OperandB.n # 0)
              => solved.answer = Str(TrueDiv(OperandA, OperandB))

\* C1, amended: when the text yields two operands, the answer is a + b if a
\* + stands between two digits; else a * b if a * or × stands anywhere; else
\* a / b (0 when b is 0) if a / stands between two digits; else a - b if a -
\* with whitespace on both sides stands between two digits; whatever
\* keywords the text holds.
C1_ExplicitOperatorDecides ==
    (pc = "solved" /\ Len(solved.unique_nums) >= 2) =>
        /\ DigitSymDigit(challenge, {"+"}, FALSE)
              => solved.answer = Str(RatAdd(OperandA, OperandB))
        /\ (~DigitSymDigit(challenge, {"+"}, FALSE) /\ HasStar(challenge))
              => solved.answer = Str(RatMul(OperandA, OperandB))
        /\ (~DigitSymDigit(challenge, {"+"}, FALSE) /\ ~HasStar(challenge)
              /\ DigitSymDigit(challenge, {"/"}, FALSE))
              => solved.answer = IF OperandB.n = 0 THEN [tag |-> "str", val |-> "0.00"]
                                 ELSE Str(TrueDiv(OperandA, OperandB))
        /\ (~DigitSymDigit(challenge, {"+"}, FALSE) /\ ~HasStar(challenge)
              /\ ~DigitSymDigit(challenge, {"/"}, FALSE) /\ DigitSymDigit(challenge, {"-"}, TRUE))
              => solved.answer = Str(RatSub(OperandA, OperandB))

\* a + between digits decides although the text holds a subtractive keyword
C1_PlusAmongKeywords ==
    /\ pc = "solved"
    /\ challenge = "minus 1 + 2"
    /\ solved.tier = "explicit"
    /\ KeywordOp(solved.cleaned) = "subtract"
    /\ solved.answer.val = "3.00"

C3_NoneOrAnswer ==
    (solved # NotSolved) =>
        /\ solved.answer.tag \in {"None", "str"}
        /\ (solved.answer.tag = "None" <=> Len(solved.unique_nums) < 2)
        /\ (Len(solved.found_nums) < 2 => solved.answer = None)

\* two values were extracted, one operand was left, and the answer is None
C3_DuplicateLeavesNone ==
    /\ pc = "solved"
    /\ Len(solved.found_nums) = 2
    /\ Len(solved.unique_nums) = 1
    /\ solved.answer = None

\* C4: a challenge decided as a division, by the explicit operator or by the
\* keyword tier, whose second operand is 0 is answered "0.00".
C4_DivisionByZero ==
    (solved.op = "divide" /\ Len(solved.unique_nums) >= 2 /\ solved.unique_nums[2].m = 0) =>
        solved.answer = [tag |-> "str", val |-> "0.00"]

\* a divisive keyword decided, the second operand is 0, the answer is "0.00"
C4_KeywordDivisionByZero ==
    /\ pc = "solved"
    /\ solved.tier = "keyword"
    /\ solved.op = "divide"
    /\ solved.unique_nums[2].m = 0
    /\ solved.unique_nums[1].m # 0
    /\ solved.answer.val = "0.00"

\* the tokens extract_numbers scans
Tokens == Split(cleaned_in)

\* the values extract_numbers found among the words: the digit literals of
\* the raw text follow them
WordPart == SubSeq(found, 1, Len(found) - Len(DigitLiterals(challenge)))

\* the value of the i-th token, a number word
ValueAt(i) == NUMBER_WORDS[Tokens[i]]

\* the i-th token is a number word that the scan reaches: no number word
\* stands before it to take it in
Reached(i) == IsNumberWord(Tokens[i]) /\ (i = 1 \/ ~IsNumberWord(Tokens[i - 1]))

\* the i-th token is of value >= 20 before one of value < 10, or of value
\* >= 100 before one of value < 100
Compound(i) ==
    /\ i < Len(Tokens)
    /\ IsNumberWord(Tokens[i + 1])
    /\ \/ ValueAt(i) >= 20 /\ ValueAt(i + 1) < 10
       \/ ValueAt(i) >= 100 /\ ValueAt(i + 1) < 100

\* what extract_numbers finds among the tokens from the i-th to the j-th
WordsOf(i, j) == WordNumbers(Join(SubSeq(Tokens, i, j), " "))

\* C5: where the scan reaches a number word of value >= 20 before one of
\* value < 10, or of value >= 100 before one of value < 100, it emits their
\* sum in the place of the two and goes on behind the second, so that a
\* third number word is a value of its own: "twenty three" gives 23,
\* "hundred twenty three" gives 120 and 3.
C5_OneLookaheadMerge ==
    (pc = "extracted") =>
        /\ \A i \in 1..Len(Tokens) :
              (Reached(i) /\ Compound(i)) =>
                  WordPart = WordsOf(1, i - 1) \o <<FloatOfInt(ValueAt(i) + ValueAt(i + 1))>>
                                \o WordsOf(i + 2, Len(Tokens))
        /\ (cleaned_in = "twenty three") => WordPart = <<FloatOfInt(23)>>
        /\ (cleaned_in = "hundred twenty three") => WordPart = <<FloatOfInt(120), FloatOfInt(3)>>
        /\ (Len(Tokens) = 3 /\ Reached(1) /\ Compound(1) /\ IsNumberWord(Tokens[3])) =>
              WordPart[2] = FloatOfInt(ValueAt(3))

\* "hundred twenty three" beside the literal 7 gave 120, 3 and 7
C5_HundredTwentyThree ==
    /\ pc = "extracted"
    /\ cleaned_in = "hundred twenty three"
    /\ challenge = "7"
    /\ found = <<FloatOfInt(120), FloatOfInt(3), FloatOfInt(7)>>

\* C6: the collapse step applied to the text it produced leaves that text
\* as it is.
C6_CollapseIdempotent == (pc = "collapsed") => twice = once

\* a run of three and a run of two were collapsed, and the second
\* application changed nothing
C6_RunsCollapsed ==
    /\ pc = "collapsed"
    /\ challenge = "aaabba"
    /\ once = "aba"
    /\ twice = "aba"

\* C7, as the claim states it: when the keyword tier decides, the operation
\* is that of the first category, in the order each, additive, subtractive,
\* multiplicative, divisive, of which a listed keyword stands in the
\* challenge as it was written, and the sum of all operands when there is
\* none.
C7_WrittenKeywordSelects ==
    (pc = "solved" /\ solved.tier = "keyword") =>
        solved.answer = Answer(Compute(KeywordOp(StripLower(challenge)), OperandA, OperandB,
                                       solved.unique_nums))

\* C8, as the claim states it: with two operands, no explicit operator, a
\* rate phrase, a duration phrase with N nonzero and no subtractive keyword
\* in the challenge as it was written, the answer is the first operand
\* times the N that is written there.
C8_RateTimesWrittenDuration ==
    (/\ pc = "solved"
     /\ Len(solved.unique_nums) >= 2
     /\ solved.explicit_op = "None"
     /\ RateApplies(StripLower(challenge), DurationMatch(StripLower(challenge)))) =>
        solved.answer = Str(RatMul(OperandA, Rat(TimeVal(DurationMatch(StripLower(challenge))))))

\* a digit stands at index i of s
DigitAt(s, i) == i >= 1 /\ i <= Len(s) /\ IsDigit(Char(s, i))

\* a whole digit literal, an operator symbol and the same literal again:
\* the digits on the left of the symbol and those on its right are the same
\* and neither is a part of a longer run of digits
SameLiteralPattern(s) ==
    \E i \in 1..Len(s) : \E n \in 1..Len(s) :
        /\ Char(s, i) \in OpSymbols
        /\ SkipSpaceLeft(s, i - 1) - n >= 0
        /\ SkipSpaceRight(s, i + 1) + n - 1 <= Len(s)
        /\ AllDigits(SubSeq(s, SkipSpaceLeft(s, i - 1) - n + 1, SkipSpaceLeft(s, i - 1)))
        /\ SubSeq(s, SkipSpaceLeft(s, i - 1) - n + 1, SkipSpaceLeft(s, i - 1))
              = SubSeq(s, SkipSpaceRight(s, i + 1), SkipSpaceRight(s, i + 1) + n - 1)
        /\ ~DigitAt(s, SkipSpaceLeft(s, i - 1) - n)
        /\ ~DigitAt(s, SkipSpaceRight(s, i + 1) + n)

\* C9, as the claim states it: the operands are the first two extracted
\* values when the raw text holds a digit literal, an operator symbol and
\* the same literal again, or when two extracted values are equal and an
\* explicit operator was detected; else they are the extracted values
\* without their later duplicates.
C9_OperandSelection ==
    (pc = "solved") =>
        solved.unique_nums =
            IF SameLiteralPattern(challenge)
                  \/ (HasDuplicate(solved.found_nums) /\ solved.explicit_op # "None")
            THEN FirstTwo(solved.found_nums)
            ELSE Dedup(solved.found_nums)

\* C10, as the claim states it: the value of every number word that stands
\* on its own in the challenge is among the values extract_numbers returns.
C10_NumberWordKept ==
    (pc = "solved") =>
        \A i \in 1..Len(Split(StripLower(challenge))) :
            IsNumberWord(Split(StripLower(challenge))[i]) =>
                \E j \in 1..Len(solved.found_nums) :
                    solved.found_nums[j] = FloatOfInt(NUMBER_WORDS[Split(StripLower(challenge))[i]])
====
